---- MODULE Spec2Model ----
(***************************************************************************)
(* Model of src/main.py: the audio -> transcript -> LLM extraction ->      *)
(* interactive completion -> calendar event pipeline, with its pure        *)
(* helpers (validate_time, get_field_value, parse_text_response,           *)
(* add_task_to_calendar) computed as the Python code computes them.        *)
(*                                                                         *)
(* Python values are tagged records:                                       *)
(*   [t |-> "null"]            None / JSON null                            *)
(*   [t |-> "str",  s |-> cs]  a string, cs the tuple of its characters    *)
(*   [t |-> "num",  n |-> i]   a number                                    *)
(*   [t |-> "bool", b |-> x]   True / False                                *)
(*   [t |-> "list", l |-> vs]  a list of values                            *)
(*   [t |-> "obj",  o |-> f]   a dict (f a function on its string keys)    *)
(* A dict of task details is a function whose DOMAIN is its set of keys.   *)
(***************************************************************************)
EXTENDS Integers, Sequences, FiniteSets, TLC

VARIABLES
    pc,                \* position of the program / of the function under test
    audio_idx,         \* index into audio_files of the `for` loop (line 246)
    started,           \* audio files for which main() has been called
    transcript_status, \* what transcriber.transcribe did in this run
    llm_status,        \* what transcript_obj.lemur.task did in this run
    parse_path,        \* which return of the response decoding was taken
    task_details,      \* the dict main() holds (NoDict before extraction)
    field_idx,         \* position in fields_to_prompt (line 148)
    user_input,        \* the last line read by input(), stripped (line 150)
    visited,           \* fields the loop of line 148 has visited, in order
    prompted,          \* fields for which input() was called, in order
    transcribe_calls,  \* calls of transcriber.transcribe in this run
    lemur_calls,       \* calls of transcript_obj.lemur.task in this run
    materialized,      \* the calendar event of this run was printed in full
    time_str,          \* argument of validate_time under test
    time_ret,          \* its return value
    rec_in,            \* argument of add_task_to_calendar under test
    rec_once,          \* the dict after one call
    rec_twice          \* the dict after a second call on rec_once

vars == <<pc, audio_idx, started, transcript_status, llm_status, parse_path,
          task_details, field_idx, user_input, visited, prompted,
          transcribe_calls, lemur_calls, materialized,
          time_str, time_ret, rec_in, rec_once, rec_twice>>

pipeline_vars == <<audio_idx, started, transcript_status, llm_status, parse_path,
                   task_details, field_idx, user_input, visited, prompted,
                   transcribe_calls, lemur_calls, materialized>>

----------------------------------------------------------------------------
(* Python values *)

VNull == [t |-> "null"]
VStr(cs) == [t |-> "str", s |-> cs]
VNum(i) == [t |-> "num", n |-> i]
VBool(x) == [t |-> "bool", b |-> x]
VList(vs) == [t |-> "list", l |-> vs]
VObj(f) == [t |-> "obj", o |-> f]

\* the sentinel 'N/A'
NA == <<"N", "/", "A">>

\* a variable of a function under test, before the call
NotCalled == [t |-> "none_yet"]

\* an uncaught / propagating TypeError
TypeError == [t |-> "exc", e |-> "TypeError"]

\* `not value` is False
truthy(v) ==
    CASE v.t = "null" -> FALSE
      [] v.t = "str"  -> v.s # <<>>
      [] v.t = "num"  -> v.n # 0
      [] v.t = "bool" -> v.b
      [] v.t = "list" -> v.l # <<>>
      [] v.t = "obj"  -> DOMAIN v.o # {}

\* dict.get(key, default)
dict_get(d, key, default) == IF key \in DOMAIN d THEN d[key] ELSE default

\* d[key] = value
dict_set(d, key, value) ==
    [k \in DOMAIN d \cup {key} |-> IF k = key THEN value ELSE d[k]]

----------------------------------------------------------------------------
(* str methods *)

LowerLetters == <<"a","b","c","d","e","f","g","h","i","j","k","l","m",
                  "n","o","p","q","r","s","t","u","v","w","x","y","z">>
UpperLetters == <<"A","B","C","D","E","F","G","H","I","J","K","L","M",
                  "N","O","P","Q","R","S","T","U","V","W","X","Y","Z">>
Digits == <<"0","1","2","3","4","5","6","7","8","9">>
Whitespace == {" ", "\t", "\n"}

upper_char(c) ==
    IF \E i \in DOMAIN LowerLetters : LowerLetters[i] = c
    THEN UpperLetters[CHOOSE i \in DOMAIN LowerLetters : LowerLetters[i] = c]
    ELSE c

lower_char(c) ==
    IF \E i \in DOMAIN UpperLetters : UpperLetters[i] = c
    THEN LowerLetters[CHOOSE i \in DOMAIN UpperLetters : UpperLetters[i] = c]
    ELSE c

str_upper(cs) == [i \in 1..Len(cs) |-> upper_char(cs[i])]
str_lower(cs) == [i \in 1..Len(cs) |-> lower_char(cs[i])]

RECURSIVE str_lstrip(_)
str_lstrip(cs) ==
    IF cs # <<>> /\ Head(cs) \in Whitespace THEN str_lstrip(Tail(cs)) ELSE cs

RECURSIVE str_rstrip(_)
str_rstrip(cs) ==
    IF cs # <<>> /\ cs[Len(cs)] \in Whitespace
    THEN str_rstrip(SubSeq(cs, 1, Len(cs) - 1))
    ELSE cs

str_strip(cs) == str_rstrip(str_lstrip(cs))

\* cs.split(','): the pieces between commas, empty pieces kept
RECURSIVE str_split_from(_, _)
str_split_from(cs, cur) ==
    IF cs = <<>> THEN <<cur>>
    ELSE IF Head(cs) = "," THEN <<cur>> \o str_split_from(Tail(cs), <<>>)
    ELSE str_split_from(Tail(cs), Append(cur, Head(cs)))

str_split(cs) == str_split_from(cs, <<>>)

\* int(digits)
RECURSIVE int_of(_)
int_of(cs) ==
    IF cs = <<>> THEN 0
    ELSE int_of(SubSeq(cs, 1, Len(cs) - 1)) * 10
         + (CHOOSE d \in 0..9 : Digits[d + 1] = cs[Len(cs)])

\* f"{n}" for n >= 0
RECURSIVE str_of_int(_)
str_of_int(n) ==
    IF n < 10 THEN <<Digits[n + 1]>>
    ELSE str_of_int(n \div 10) \o <<Digits[(n % 10) + 1]>>

----------------------------------------------------------------------------
(* validate_time, lines 110-132 *)

\* (1[0-2]|0?[1-9]) matching the whole of cs
hour_group(cs) ==
    \/ Len(cs) = 2 /\ cs[1] = "1" /\ cs[2] \in {"0", "1", "2"}
    \/ Len(cs) = 2 /\ cs[1] = "0" /\ cs[2] \in {Digits[i] : i \in 2..10}
    \/ Len(cs) = 1 /\ cs[1] \in {Digits[i] : i \in 2..10}

\* (AM|PM|am|pm)
period_group(cs) ==
    cs \in {<<"A","M">>, <<"P","M">>, <<"a","m">>, <<"p","m">>}

\* time_pattern.match(cs): the set of <<group 1, group 2, group 3>> of the
\* ways  ^(1[0-2]|0?[1-9]):([0-5][0-9])\s?(AM|PM|am|pm)$  matches cs
\* (hl: length of the hour, wl: of \s?, nl: a final newline that $ allows)
time_pattern_match(cs) ==
    { <<SubSeq(cs, 1, d[1]),
        SubSeq(cs, d[1] + 2, d[1] + 3),
        SubSeq(cs, d[1] + 4 + d[2], d[1] + 5 + d[2])>> :
      d \in { e \in (1..2) \X (0..1) \X (0..1) :
                /\ Len(cs) = e[1] + 3 + e[2] + 2 + e[3]
                /\ hour_group(SubSeq(cs, 1, e[1]))
                /\ cs[e[1] + 1] = ":"
                /\ cs[e[1] + 2] \in {Digits[i] : i \in 1..6}
                /\ cs[e[1] + 3] \in {Digits[i] : i \in 1..10}
                /\ (e[2] = 1 => cs[e[1] + 4] \in Whitespace)
                /\ period_group(SubSeq(cs, e[1] + 4 + e[2], e[1] + 5 + e[2]))
                /\ (e[3] = 1 => cs[Len(cs)] = "\n") } }

\* a plausible slip: period.capitalize() instead of period.upper()
format_time_capitalize(groups) ==
    VStr(str_of_int(int_of(groups[1])) \o <<":">> \o groups[2] \o <<" ">>
         \o <<upper_char(groups[3][1]), lower_char(groups[3][2])>>)

\* lines 126-129: f"{hour}:{minute} {period}"
format_time(groups) ==
    VStr(str_of_int(int_of(groups[1])) \o <<":">> \o groups[2] \o <<" ">>
         \o str_upper(groups[3]))

\* the return value, or TypeError when re.match is handed a non-string
validate_time(v) ==
    IF ~truthy(v) THEN VStr(NA)
    ELSE IF v.t = "str" /\ str_upper(str_strip(v.s)) = NA THEN VStr(NA)
    ELSE IF v.t # "str" THEN TypeError
    ELSE IF time_pattern_match(v.s) # {}
         THEN format_time(CHOOSE g \in time_pattern_match(v.s) : TRUE)
         ELSE VStr(NA)

----------------------------------------------------------------------------
(* get_field_value, lines 134-141, and add_task_to_calendar, lines 182-211 *)

Fields == {"task", "with_whom", "time", "location", "agenda", "duration", "participants"}

\* a plausible slip: the value is handed back without the fallback
get_field_value_keep(field_value, field_name) == field_value

\* lines 138-141
get_field_value(field_value, field_name) ==
    IF ~truthy(field_value) THEN VStr(NA) ELSE field_value

NonEmptyStr(cs) == cs # <<>>

\* line 198: [p.strip() for p in participants.split(',') if p.strip()]
split_participants(cs) ==
    LET pieces == str_split(cs)
        stripped == [i \in 1..Len(pieces) |-> str_strip(pieces[i])]
        kept == SelectSeq(stripped, NonEmptyStr)
    IN VList([i \in 1..Len(kept) |-> VStr(kept[i])])

\* lines 196-200: the value stored under 'participants'
normalize_participants(d) ==
    LET given == dict_get(d, "participants", VList(<<>>))
        as_list == IF given.t = "str" THEN split_participants(given.s) ELSE given
    IN IF ~truthy(as_list) THEN VList(<<VStr(NA)>>) ELSE as_list

\* line 210: ', '.join(x) raises TypeError unless x is an iterable of strings
\* (a list of strings, or a dict, whose keys JSON makes strings)
join_raises(x) ==
    CASE x.t = "list" -> \E i \in 1..Len(x.l) : x.l[i].t # "str"
      [] x.t = "obj"  -> FALSE
      [] x.t = "str"  -> FALSE
      [] OTHER        -> TRUE

\* add_task_to_calendar(d): the dict as the call leaves it (it is mutated in
\* place, statement by statement), and whether the call raised
add_task_to_calendar(d) ==
    LET t == validate_time(dict_get(d, "time", VStr(NA))) IN
    IF t = TypeError THEN [rec |-> d, raised |-> TRUE]
    ELSE
      LET d1 == dict_set(d, "time", t)
          d2 == dict_set(d1, "with_whom",
                         get_field_value(dict_get(d1, "with_whom", VNull), "with_whom"))
          d3 == dict_set(d2, "location",
                         get_field_value(dict_get(d2, "location", VNull), "location"))
          d4 == dict_set(d3, "agenda",
                         get_field_value(dict_get(d3, "agenda", VNull), "agenda"))
          d5 == dict_set(d4, "duration",
                         get_field_value(dict_get(d4, "duration", VNull), "duration"))
          d6 == dict_set(d5, "participants", normalize_participants(d5))
      IN [rec |-> d6, raised |-> join_raises(d6["participants"])]

----------------------------------------------------------------------------
(* The text of an LLM response, as a sequence of tokens, and json.loads *)

LBrace == [tok |-> "{"]
RBrace == [tok |-> "}"]
\* text that is no JSON ("Sure! Here is ...")
Prose == [tok |-> "prose"]
\* the text of a JSON value that is not an object (a number, a string, a list)
Scalar == [tok |-> "scalar"]
\* the text  "key": value  of one member of an object
Member(key, value) == [tok |-> "member", k |-> key, v |-> value]

PyNone == VNull
EmptyDict == <<>>

\* the text is one JSON object: { member ... member }
is_object_text(toks) ==
    /\ Len(toks) >= 2
    /\ toks[1] = LBrace
    /\ toks[Len(toks)] = RBrace
    /\ \A i \in 2..(Len(toks) - 1) : toks[i].tok = "member"

\* the dict an object text decodes to; of a repeated key the last member wins
object_of(toks) ==
    [key \in {toks[i].k : i \in 2..(Len(toks) - 1)} |->
        toks[CHOOSE i \in 2..(Len(toks) - 1) :
                /\ toks[i].k = key
                /\ \A j \in (i + 1)..(Len(toks) - 1) : toks[j].k # key].v]

\* json.loads(toks): ok = FALSE stands for JSONDecodeError
json_loads(toks) ==
    IF is_object_text(toks) THEN [ok |-> TRUE, is_dict |-> TRUE, value |-> object_of(toks)]
    ELSE IF toks = <<Scalar>> THEN [ok |-> TRUE, is_dict |-> FALSE, value |-> EmptyDict]
    ELSE [ok |-> FALSE, is_dict |-> FALSE, value |-> EmptyDict]

\* lines 65-67, 73-75, 101-103: None values become 'N/A'
replace_none(d) == [key \in DOMAIN d |-> IF d[key] = VNull THEN VStr(NA) ELSE d[key]]

\* response_text.find('{'), counted from 1; 0 when there is none
find_lbrace(toks) ==
    IF \E i \in 1..Len(toks) : toks[i] = LBrace
    THEN CHOOSE i \in 1..Len(toks) :
            toks[i] = LBrace /\ \A j \in 1..(i - 1) : toks[j] # LBrace
    ELSE 0

\* json_str.rfind('}') + 1: the length of the prefix that ends with the last '}'
rfind_rbrace_end(toks) ==
    IF \E i \in 1..Len(toks) : toks[i] = RBrace
    THEN CHOOSE i \in 1..Len(toks) :
            toks[i] = RBrace /\ \A j \in (i + 1)..Len(toks) : toks[j] # RBrace
    ELSE 0

\* parse_text_response, lines 82-107: the dict returned and the return taken
parse_text_response(toks) ==
    IF find_lbrace(toks) = 0 THEN [ret |-> EmptyDict, path |-> "Empty"]
    ELSE
      LET json_str == SubSeq(toks, find_lbrace(toks), Len(toks))
          sliced == SubSeq(json_str, 1, rfind_rbrace_end(json_str))
          data == json_loads(sliced)
      IN IF data.ok /\ data.is_dict
         THEN [ret |-> replace_none(data.value), path |-> "Fallback"]
         ELSE [ret |-> EmptyDict, path |-> "Empty"]

\* extract_task_details_llm, lines 52-79, given what lemur.task did:
\* [status |-> "raises"] or [status |-> "ok", response |-> tokens]
extract_task_details_llm(outcome) ==
    IF outcome.status = "raises" THEN [ret |-> PyNone, path |-> "LLMFailed"]
    ELSE
      LET strict == json_loads(outcome.response) IN
      IF strict.ok /\ strict.is_dict
        THEN [ret |-> replace_none(strict.value), path |-> "Strict"]
      ELSE IF strict.ok
        \* .items() of a non-dict raises AttributeError, caught at line 77
        THEN [ret |-> PyNone, path |-> "NotAnObject"]
      ELSE parse_text_response(outcome.response)

\* a plausible slip: the status check of line 28 is left out
transcribe_audio_unchecked(result) ==
    IF result = "raises" THEN PyNone ELSE [t |-> "transcript", status |-> result]

\* transcribe_audio, lines 21-34, given what transcriber.transcribe did
transcribe_audio(result) ==
    IF result = "completed" THEN [t |-> "transcript", status |-> result] ELSE PyNone

\* `not x` for what main() tests at lines 217 and 225
is_falsy(x) == x = PyNone \/ DOMAIN x = {}

----------------------------------------------------------------------------
(* prompt_for_missing_fields, lines 143-157, enhance_input_with_llm, 159-179 *)

fields_to_prompt == <<"time", "location", "agenda", "duration", "participants">>

Skip == <<"s", "k", "i", "p">>

\* a plausible slip: the comparison with 'skip' without .lower()
accepts_reply_case_sensitive(reply) == reply # Skip /\ reply # <<>>

\* line 151: user_input.lower() != 'skip' and user_input
accepts_reply(reply) == str_lower(reply) # Skip /\ reply # <<>>

\* enhance_input_with_llm given what the completion call did:
\* [status |-> "raises", text |-> <<>>] or [status |-> "ok", text |-> its text]
enhance_input_with_llm(reply, enhancement) ==
    IF enhancement.status = "raises" THEN reply ELSE str_strip(enhancement.text)

----------------------------------------------------------------------------
(* The program: the loop of lines 246-249 over main(), lines 214-239 *)

\* length of the audio_files list the loop runs over (the list of line 244
\* holds one file; the loop is the same for any length)
NumFiles == 2

Txt_t == <<"t">>
Txt_x == <<"x">>
Txt_3pm == <<"3", ":", "0", "0", "p", "m">>
Txt_ab == <<"a", ",", "b">>
Txt_skip_mixed == <<" ", "s", "K", "i", "P", " ">>
Txt_enhanced == <<" ", "e">>

Absent == [t |-> "absent"]

\* the dict that holds c[f] under f, for the fields c does not leave absent
dict_of(c) == [k \in {f \in DOMAIN c : c[f] # Absent} |-> c[k]]

\* the objects the language model may answer with
LLMDicts ==
    {dict_of([task |-> VStr(Txt_t), with_whom |-> VStr(Txt_x), agenda |-> VStr(Txt_x),
              duration |-> VStr(NA), time |-> a, location |-> b, participants |-> c]) :
        a \in {Absent, VNull, VStr(<<>>), VStr(NA), VStr(Txt_3pm), VNum(5)},
        b \in {Absent, VStr(NA)},
        c \in {Absent, VNull, VStr(NA), VStr(Txt_ab), VList(<<VStr(<<"a">>)>>), VNum(5)}}

FieldOrder == <<"task", "with_whom", "time", "location", "agenda", "duration", "participants">>

InDict(d) == LET Test(f) == f \in DOMAIN d IN SelectSeq(FieldOrder, Test)

\* the text of the JSON object d
object_text(d) ==
    <<LBrace>> \o [i \in 1..Len(InDict(d)) |-> Member(InDict(d)[i], d[InDict(d)[i]])]
               \o <<RBrace>>

\* the response texts the language model may give
Responses ==
    {pre \o body \o post :
        pre \in {<<>>, <<Prose>>},
        body \in {object_text(d) : d \in LLMDicts},
        post \in {<<>>, <<Prose>>}}
    \cup {<<>>, <<Prose>>, <<Scalar>>, <<LBrace, RBrace>>,
          <<LBrace, Member("task", VStr(Txt_t))>>,
          <<RBrace, Prose, LBrace>>,
          <<LBrace, Prose, RBrace>>,
          <<LBrace, Member("time", VNull), Member("time", VStr(Txt_3pm)), RBrace>>}

LLMOutcomes ==
    {[status |-> "raises", response |-> <<>>]}
    \cup {[status |-> "ok", response |-> r] : r \in Responses}

\* the lines input() may return
InputLines == {<<>>, Txt_skip_mixed, Txt_3pm, Txt_ab}

EnhanceOutcomes ==
    {[status |-> "raises", text |-> <<>>], [status |-> "ok", text |-> Txt_enhanced]}

Init ==
    /\ pc = "loop"
    /\ audio_idx = 1
    /\ started = <<>>
    /\ transcript_status = "none" /\ llm_status = "none" /\ parse_path = "none"
    /\ task_details = PyNone
    /\ field_idx = 0 /\ user_input = <<>> /\ visited = <<>> /\ prompted = <<>>
    /\ transcribe_calls = 0 /\ lemur_calls = 0 /\ materialized = FALSE
    /\ time_str = NotCalled /\ time_ret = NotCalled
    /\ rec_in = NotCalled /\ rec_once = NotCalled /\ rec_twice = NotCalled

under_test == <<time_str, time_ret, rec_in, rec_once, rec_twice>>

\* lines 246-249: the next audio file; main() is entered with fresh locals
LoopNext ==
    /\ pc = "loop" /\ audio_idx <= NumFiles
    /\ started' = Append(started, audio_idx)
    /\ transcript_status' = "none" /\ llm_status' = "none" /\ parse_path' = "none"
    /\ task_details' = PyNone
    /\ field_idx' = 0 /\ user_input' = <<>> /\ visited' = <<>> /\ prompted' = <<>>
    /\ transcribe_calls' = 0 /\ lemur_calls' = 0 /\ materialized' = FALSE
    /\ pc' = "transcribe"
    /\ UNCHANGED <<audio_idx, under_test>>

\* the loop is over: the program ends
LoopEnd ==
    /\ pc = "loop" /\ audio_idx > NumFiles
    /\ pc' = "exit"
    /\ UNCHANGED <<pipeline_vars, under_test>>

\* lines 216-219: transcribe_audio; main() returns when it gives None
Transcribe ==
    /\ pc = "transcribe"
    /\ \E result \in {"completed", "error", "raises"} :
        /\ transcribe_calls' = transcribe_calls + 1
        /\ transcript_status' = result
        /\ IF transcribe_audio(result) = PyNone
           THEN pc' = "loop" /\ audio_idx' = audio_idx + 1
           ELSE pc' = "extract" /\ audio_idx' = audio_idx
    /\ UNCHANGED <<started, llm_status, parse_path, task_details, field_idx,
                   user_input, visited, prompted, lemur_calls, materialized,
                   under_test>>

\* lines 224-227: extract_task_details_llm; main() returns on a falsy result
Extract ==
    /\ pc = "extract"
    /\ \E outcome \in LLMOutcomes :
        LET r == extract_task_details_llm(outcome) IN
        /\ lemur_calls' = lemur_calls + 1
        /\ llm_status' = outcome.status
        /\ parse_path' = r.path
        /\ task_details' = r.ret
        /\ IF is_falsy(r.ret)
           THEN pc' = "loop" /\ audio_idx' = audio_idx + 1 /\ field_idx' = field_idx
           ELSE pc' = "prompt" /\ audio_idx' = audio_idx /\ field_idx' = 1
    /\ UNCHANGED <<started, transcript_status, user_input, visited, prompted,
                   transcribe_calls, materialized, under_test>>

\* after the field at field_idx: the next field, or line 239
AfterField ==
    IF field_idx = Len(fields_to_prompt)
    THEN pc' = "calendar" /\ field_idx' = field_idx
    ELSE pc' = "prompt" /\ field_idx' = field_idx + 1

\* lines 148-149: a field whose value is not 'N/A' is passed over
PromptPass ==
    /\ pc = "prompt"
    /\ dict_get(task_details, fields_to_prompt[field_idx], PyNone) # VStr(NA)
    /\ visited' = Append(visited, fields_to_prompt[field_idx])
    /\ AfterField
    /\ UNCHANGED <<audio_idx, started, transcript_status, llm_status, parse_path,
                   task_details, user_input, prompted, transcribe_calls,
                   lemur_calls, materialized, under_test>>

\* lines 149-156: a field whose value is 'N/A' is asked for
PromptAsk ==
    /\ pc = "prompt"
    /\ dict_get(task_details, fields_to_prompt[field_idx], PyNone) = VStr(NA)
    /\ \E line \in InputLines, enhancement \in EnhanceOutcomes :
        /\ user_input' = str_strip(line)
        /\ task_details' =
             IF accepts_reply(str_strip(line))
             THEN dict_set(task_details, fields_to_prompt[field_idx],
                           VStr(enhance_input_with_llm(str_strip(line), enhancement)))
             ELSE task_details
    /\ visited' = Append(visited, fields_to_prompt[field_idx])
    /\ prompted' = Append(prompted, fields_to_prompt[field_idx])
    /\ AfterField
    /\ UNCHANGED <<audio_idx, started, transcript_status, llm_status, parse_path,
                   transcribe_calls, lemur_calls, materialized, under_test>>

\* line 239: add_task_to_calendar returns, and with it main()
AddToCalendar ==
    /\ pc = "calendar"
    /\ ~add_task_to_calendar(task_details).raised
    /\ task_details' = add_task_to_calendar(task_details).rec
    /\ materialized' = TRUE
    /\ pc' = "loop" /\ audio_idx' = audio_idx + 1
    /\ UNCHANGED <<started, transcript_status, llm_status, parse_path, field_idx,
                   user_input, visited, prompted, transcribe_calls, lemur_calls,
                   under_test>>

\* line 239: add_task_to_calendar raises; nothing catches it in main() or in
\* the loop, so the program ends with a traceback
AddToCalendarRaise ==
    /\ pc = "calendar"
    /\ add_task_to_calendar(task_details).raised
    /\ task_details' = add_task_to_calendar(task_details).rec
    /\ pc' = "crashed"
    /\ UNCHANGED <<audio_idx, started, transcript_status, llm_status, parse_path,
                   field_idx, user_input, visited, prompted, transcribe_calls,
                   lemur_calls, materialized, under_test>>

Next ==
    \/ LoopNext \/ LoopEnd \/ Transcribe \/ Extract
    \/ PromptPass \/ PromptAsk \/ AddToCalendar \/ AddToCalendarRaise

Spec == Init /\ [][Next]_vars

----------------------------------------------------------------------------
(* Inputs of validate_time under test *)

TwoDigits(n) == IF n < 10 THEN <<"0">> \o str_of_int(n) ELSE str_of_int(n)

HourStrs == {str_of_int(n) : n \in 0..13} \cup {<<"0">> \o str_of_int(n) : n \in 0..12}
MinuteStrs == {TwoDigits(n) : n \in 0..60} \cup {<<"5">>}
GapStrs == {<<>>, <<" ">>, <<"\t">>, <<" ", " ">>}
PeriodStrs == {<<a, m>> : a \in {"A", "a", "P", "p"}, m \in {"M", "m"}} \cup {<<"A">>}

TimeInputs ==
    {VStr(h \o <<":">> \o m \o g \o p) :
        h \in HourStrs, m \in MinuteStrs, g \in GapStrs, p \in PeriodStrs}
    \cup {VStr(<<>>), VStr(NA), VStr(<<" ", "n", "/", "a", " ">>),
          VStr(<<"n","o","o","n">>), VStr(<<"2","5",":","0","0">>),
          VStr(<<"9",":","0","5"," ","A","M","\n">>),
          VNull, VNum(0), VNum(5), VBool(TRUE), VBool(FALSE),
          VList(<<>>), VList(<<VStr(<<"9">>)>>)}

InitValidate ==
    /\ pc = "validate_call"
    /\ time_str \in TimeInputs
    /\ time_ret = NotCalled
    /\ audio_idx = 0 /\ started = <<>> /\ transcript_status = "none"
    /\ llm_status = "none" /\ parse_path = "none" /\ task_details = NotCalled
    /\ field_idx = 0 /\ user_input = <<>> /\ visited = <<>> /\ prompted = <<>>
    /\ transcribe_calls = 0 /\ lemur_calls = 0 /\ materialized = FALSE
    /\ rec_in = NotCalled /\ rec_once = NotCalled /\ rec_twice = NotCalled

\* validate_time(time_str) returns
ValidateReturn ==
    /\ pc = "validate_call"
    /\ validate_time(time_str) # TypeError
    /\ time_ret' = validate_time(time_str)
    /\ pc' = "validated"
    /\ UNCHANGED <<pipeline_vars, time_str, rec_in, rec_once, rec_twice>>

\* validate_time(time_str) raises
ValidateRaise ==
    /\ pc = "validate_call"
    /\ validate_time(time_str) = TypeError
    /\ time_ret' = TypeError
    /\ pc' = "validate_raised"
    /\ UNCHANGED <<pipeline_vars, time_str, rec_in, rec_once, rec_twice>>

NextValidate == ValidateReturn \/ ValidateRaise

SpecValidate == InitValidate /\ [][NextValidate]_vars

----------------------------------------------------------------------------
(* Inputs of add_task_to_calendar under test *)

Txt_0905PM == <<"0", "9", ":", "0", "5", " ", "P", "M">>
Txt_905Pm == <<"9", ":", "0", "5", " ", "P", "m">>
Txt_noon == <<"n", "o", "o", "n">>
Txt_na_padded == <<" ", "n", "/", "a", " ">>
Txt_AliceBob == <<"A","l","i","c","e",","," ","B","o","b"," ",",",","," ">>
Txt_commas == <<" ", ",", " ">>

FieldChoices ==
    [task         |-> {Absent, VNull, VStr(Txt_t)},
     with_whom    |-> {Absent, VNull, VStr(<<>>), VStr(NA), VStr(Txt_x), VNum(5)},
     location     |-> {Absent, VNull, VStr(Txt_x)},
     agenda       |-> {Absent, VStr(<<>>)},
     duration     |-> {Absent, VNum(30)},
     time         |-> {Absent, VNull, VStr(<<>>), VStr(NA), VStr(Txt_na_padded),
                       VStr(Txt_3pm), VStr(Txt_0905PM), VStr(Txt_905Pm),
                       VStr(Txt_noon), VNum(5), VNum(0), VList(<<VStr(Txt_x)>>)},
     participants |-> {Absent, VNull, VStr(<<>>), VStr(NA), VStr(Txt_AliceBob),
                       VStr(Txt_commas), VList(<<>>),
                       VList(<<VStr(<<"a">>), VStr(<<" ", "b", " ">>)>>),
                       VList(<<VNum(1)>>), VNum(5), VNum(0), VBool(TRUE),
                       VObj([a |-> VNum(1)]), VObj(<<>>)}]

NormalizeInputs ==
    {dict_of([task |-> a, with_whom |-> b, location |-> c, agenda |-> d,
              duration |-> e, time |-> f, participants |-> g]) :
        a \in FieldChoices.task, b \in FieldChoices.with_whom,
        c \in FieldChoices.location, d \in FieldChoices.agenda,
        e \in FieldChoices.duration, f \in FieldChoices.time,
        g \in FieldChoices.participants}

InitNormalize ==
    /\ pc = "normalize_call"
    /\ rec_in \in NormalizeInputs
    /\ rec_once = NotCalled /\ rec_twice = NotCalled
    /\ time_str = NotCalled /\ time_ret = NotCalled
    /\ audio_idx = 0 /\ started = <<>> /\ transcript_status = "none"
    /\ llm_status = "none" /\ parse_path = "none" /\ task_details = NotCalled
    /\ field_idx = 0 /\ user_input = <<>> /\ visited = <<>> /\ prompted = <<>>
    /\ transcribe_calls = 0 /\ lemur_calls = 0 /\ materialized = FALSE

\* add_task_to_calendar(rec_in) returns
NormalizeReturn ==
    /\ pc = "normalize_call"
    /\ ~add_task_to_calendar(rec_in).raised
    /\ rec_once' = add_task_to_calendar(rec_in).rec
    /\ pc' = "normalized_once"
    /\ UNCHANGED <<pipeline_vars, time_str, time_ret, rec_in, rec_twice>>

\* add_task_to_calendar(rec_in) raises
NormalizeRaise ==
    /\ pc = "normalize_call"
    /\ add_task_to_calendar(rec_in).raised
    /\ rec_once' = add_task_to_calendar(rec_in).rec
    /\ pc' = "normalize_raised"
    /\ UNCHANGED <<pipeline_vars, time_str, time_ret, rec_in, rec_twice>>

\* add_task_to_calendar is called again on the dict the first call left
NormalizeAgain ==
    /\ pc = "normalized_once"
    /\ rec_twice' = add_task_to_calendar(rec_once).rec
    /\ pc' = IF add_task_to_calendar(rec_once).raised
             THEN "normalize_again_raised" ELSE "normalized_twice"
    /\ UNCHANGED <<pipeline_vars, time_str, time_ret, rec_in, rec_once>>

NextNormalize == NormalizeReturn \/ NormalizeRaise \/ NormalizeAgain

SpecNormalize == InitNormalize /\ [][NextNormalize]_vars

----------------------------------------------------------------------------
(* C5 *)

FirstColon(cs) ==
    IF \E i \in 1..Len(cs) : cs[i] = ":"
    THEN CHOOSE i \in 1..Len(cs) : cs[i] = ":" /\ \A j \in 1..(i - 1) : cs[j] # ":"
    ELSE 0

\* the time strings C5 speaks of: hour 1-12 (1-9 optionally with one leading
\* zero), colon, minute 00-59, at most one whitespace character, A or P
\* followed by M in any letter case
ClaimedTime(cs) ==
    LET c == FirstColon(cs) IN
    /\ c \in 2..3
    /\ SubSeq(cs, 1, c - 1) \in {str_of_int(n) : n \in 1..12}
                                 \cup {<<"0">> \o str_of_int(n) : n \in 1..9}
    /\ Len(cs) \in {c + 4, c + 5}
    /\ SubSeq(cs, c + 1, c + 2) \in {TwoDigits(n) : n \in 0..59}
    /\ (Len(cs) = c + 5 => cs[c + 3] \in Whitespace)
    /\ str_upper(SubSeq(cs, Len(cs) - 1, Len(cs))) \in {<<"A", "M">>, <<"P", "M">>}

\* what C5 says validate_time returns for such a string
ClaimedCanonical(cs) ==
    LET c == FirstColon(cs) IN
    VStr(str_of_int(int_of(SubSeq(cs, 1, c - 1))) \o <<":">>
         \o SubSeq(cs, c + 1, c + 2) \o <<" ">>
         \o str_upper(SubSeq(cs, Len(cs) - 1, Len(cs))))

\* C5: for every time string of the claimed shape (meridiem in any mix of
\* upper and lower case), validate_time returns hour without leading zero,
\* ":", the two-digit minute, one space and the upper-cased meridiem.
C5_AnyCaseMeridiemCanonical ==
    (pc = "validated" /\ time_str.t = "str" /\ ClaimedTime(time_str.s))
        => time_ret = ClaimedCanonical(time_str.s)

----------------------------------------------------------------------------
(* C1 *)

\* C1: when the language-model call succeeds and neither decode attempt of
\* its response succeeds, the parser yields the empty mapping and the run goes
\* on: once main() is over, Interactive Completion has visited every field
\* and the calendar event has been produced.
C1_UndecodableResponseContinues ==
    (llm_status = "ok" /\ parse_path = "Empty") =>
        /\ task_details # PyNone
        /\ (pc \in {"loop", "exit"} => visited = fields_to_prompt /\ materialized)

----------------------------------------------------------------------------
(* C2 *)

\* C2: whatever fails inside one run, every audio file of the list gets its
\* own run: when the program is over, main() has been entered for each.
C2_EveryAudioFileGetsItsRun ==
    pc \in {"exit", "crashed"} => started = [i \in 1..NumFiles |-> i]

----------------------------------------------------------------------------
(* C3 *)

\* C3: the record has been through the Field Normalizer before Interactive
\* Completion looks at it: the field being examined is a key of the record
\* and, had the model left it out or given the empty string, holds 'N/A' (so
\* it is never missing and never the empty string at that moment).
C3_NormalizedBeforeCompletion ==
    pc = "prompt" =>
        /\ fields_to_prompt[field_idx] \in DOMAIN task_details
        /\ task_details[fields_to_prompt[field_idx]] # VStr(<<>>)

----------------------------------------------------------------------------
(* C4 *)

Sentinel(f) == IF f = "participants" THEN VList(<<VStr(NA)>>) ELSE VStr(NA)

FieldFilled(f) ==
    /\ f \in DOMAIN rec_once
    /\ rec_once[f] # VNull
    /\ ((f \notin DOMAIN rec_in \/ rec_in[f] = VNull) => rec_once[f] = Sentinel(f))

\* C4: after normalization of any input record, each of the seven fields
\* task, with_whom, time, location, agenda, duration, participants is a key,
\* none is null, and one that was absent or null holds the sentinel.
C4_AllSevenFieldsFilled ==
    pc = "normalized_once" => \A f \in Fields : FieldFilled(f)

\* C4 as amended: after a normalization that returns, each of the six fields
\* with_whom, time, location, agenda, duration, participants is a key, none
\* is null, and one that was absent or null holds the sentinel; task is left
\* as the input had it (absent stays absent, null stays null).
C4_SixFieldsFilledTaskUntouched ==
    pc = "normalized_once" =>
        /\ \A f \in Fields \ {"task"} : FieldFilled(f)
        /\ ("task" \in DOMAIN rec_once) = ("task" \in DOMAIN rec_in)
        /\ ("task" \in DOMAIN rec_in => rec_once["task"] = rec_in["task"])

\* the normalizer has returned for a record that lacks task and with_whom
\* and holds a null location
C4_Witness ==
    /\ pc = "normalized_once"
    /\ "task" \notin DOMAIN rec_in
    /\ "with_whom" \notin DOMAIN rec_in
    /\ "location" \in DOMAIN rec_in /\ rec_in["location"] = VNull
    /\ rec_once["with_whom"] = VStr(NA) /\ rec_once["location"] = VStr(NA)

----------------------------------------------------------------------------
(* C6 *)

\* C6: the Field Normalizer never raises, whatever JSON values the record
\* holds.
C6_NormalizerNeverRaises ==
    pc \notin {"normalize_raised", "normalize_again_raised"}

----------------------------------------------------------------------------
(* C7 *)

\* C7: when normalization of a record returns, normalizing the result again
\* returns too and leaves each of the seven fields as the first call left it.
C7_NormalizeIdempotent ==
    /\ pc # "normalize_again_raised"
    /\ pc = "normalized_twice" =>
         \A f \in Fields :
            /\ (f \in DOMAIN rec_twice) = (f \in DOMAIN rec_once)
            /\ (f \in DOMAIN rec_once => rec_twice[f] = rec_once[f])

\* twice normalized, where the first call rewrote the time and split the
\* participants string
C7_Witness ==
    /\ pc = "normalized_twice"
    /\ "time" \in DOMAIN rec_in /\ rec_in["time"] = VStr(Txt_3pm)
    /\ rec_once["time"] = VStr(<<"3", ":", "0", "0", " ", "P", "M">>)
    /\ "participants" \in DOMAIN rec_in /\ rec_in["participants"] = VStr(Txt_AliceBob)
    /\ rec_once["participants"] =
          VList(<<VStr(<<"A","l","i","c","e">>), VStr(<<"B","o","b">>)>>)

----------------------------------------------------------------------------
(* C8 *)

\* C8: in a run, transcription and extraction are each invoked at most once;
\* after a transcription that reports an error or throws, the language model
\* is not invoked and the run is over; after a failed extraction call the
\* result is null, and neither Interactive Completion nor the Event
\* Materializer runs.
C8_ProviderFailureStopsRun ==
    /\ transcribe_calls <= 1 /\ lemur_calls <= 1
    /\ transcript_status \in {"error", "raises"} =>
         /\ lemur_calls = 0 /\ llm_status = "none"
         /\ visited = <<>> /\ prompted = <<>> /\ ~materialized
         /\ pc \in {"loop", "exit"}
    /\ llm_status = "raises" =>
         /\ task_details = PyNone
         /\ visited = <<>> /\ prompted = <<>> /\ ~materialized
         /\ pc \in {"loop", "exit"}

\* a run that ended on a failed extraction call, after one transcription
C8_Witness ==
    /\ pc = "loop" /\ started # <<>>
    /\ transcript_status = "completed" /\ transcribe_calls = 1
    /\ llm_status = "raises" /\ lemur_calls = 1

----------------------------------------------------------------------------
(* C10 *)

IsPrefix(p, q) == Len(p) <= Len(q) /\ SubSeq(q, 1, Len(p)) = p

\* C10: Interactive Completion visits time, location, agenda, duration,
\* participants in that order, each at most once; it prompts for the visited
\* field iff its value is 'N/A' then; after a reply of 'skip' in any letter
\* case or an empty reply the field is still 'N/A'; and no other field of the
\* record changes.
C10_PromptOrderAndSkip ==
    [][pc = "prompt" =>
        LET f == <<"time", "location", "agenda", "duration", "participants">>[Len(visited) + 1]
            was_sentinel == f \in DOMAIN task_details /\ task_details[f] = VStr(NA)
        IN /\ visited' = Append(visited, f)
           /\ IsPrefix(visited', <<"time", "location", "agenda", "duration", "participants">>)
           /\ prompted' = IF was_sentinel THEN Append(prompted, f) ELSE prompted
           /\ (~was_sentinel => task_details' = task_details)
           /\ (was_sentinel /\ (str_lower(user_input') = Skip \/ user_input' = <<>>)
                 => task_details'[f] = VStr(NA))
           /\ \A g \in Fields \ {f} :
                /\ (g \in DOMAIN task_details') = (g \in DOMAIN task_details)
                /\ (g \in DOMAIN task_details => task_details'[g] = task_details[g])
      ]_vars

\* Interactive Completion is over: a field was passed over, one was asked
\* for and answered 'sKiP' or nothing (still 'N/A'), one was asked for and set
C10_Witness ==
    /\ pc = "calendar"
    /\ visited = fields_to_prompt
    /\ Len(prompted) >= 2 /\ Len(prompted) < Len(visited)
    /\ str_lower(user_input) = Skip
    /\ \E i \in 1..Len(prompted) : task_details[prompted[i]] = VStr(NA)
    /\ \E i \in 1..Len(prompted) : task_details[prompted[i]] # VStr(NA)

----------------------------------------------------------------------------
(* C9 *)

\* C9: after normalization participants is a non-empty sequence of strings,
\* whatever the input held; a string is replaced by its trimmed non-empty
\* comma-separated parts in order, an empty result by ['N/A'].
C9_ParticipantsNonEmptyStrings ==
    pc = "normalized_once" =>
        /\ rec_once["participants"].t = "list"
        /\ rec_once["participants"].l # <<>>
        /\ \A i \in 1..Len(rec_once["participants"].l) :
              rec_once["participants"].l[i].t = "str"
        /\ (dict_get(rec_in, "participants", VNull) = VStr(Txt_AliceBob) =>
              rec_once["participants"] =
                 VList(<<VStr(<<"A","l","i","c","e">>), VStr(<<"B","o","b">>)>>))
        /\ (dict_get(rec_in, "participants", VNull) \in {VStr(<<>>), VStr(Txt_commas)} =>
              rec_once["participants"] = VList(<<VStr(NA)>>))

====
